---- MODULE Spec2Model ----
(***************************************************************************)
(* md2pdf (src/main.rs): Markdown file or directory -> HTML -> PDF.        *)
(*                                                                         *)
(* A Rust String is modelled as a sequence of characters, each a           *)
(* one-character string (the backquote is written BQ), so                  *)
(* that lines(), trim(), starts_with(), take_while, replace and the        *)
(* format!/push_str concatenations are computed character by character.    *)
(* main is modelled as a state machine with one action per statement       *)
(* that can fail or that produces a value a later statement consumes.      *)
(***************************************************************************)
EXTENDS Integers, Sequences, FiniteSets, TLC

VARIABLES
    pc,                 \* position of main: the statement to execute next
    input,              \* what args.input names on the filesystem
    title,              \* args.title
    markdown_content,   \* main, single-file mode: the text read (line 297)
    files_by_dir,       \* main, directory mode: collect_markdown_files' map
    combined_markdown,  \* main, directory mode: create_combined_markdown's text
    parser_input,       \* markdown_to_html: the text handed to MdParser::new_ext
    error,              \* the error main returned, "none" while it runs
    output,             \* the artifact at args.output: "none", "partial", "complete"
    stages,             \* history: the fallible operations main has entered, in order
    calls               \* history: every call of a normalizer: function, argument, result

vars == <<pc, input, title, markdown_content, files_by_dir, combined_markdown,
          parser_input, error, output, stages, calls>>

(***************************************************************************)
(* Characters and strings                                                  *)
(***************************************************************************)
NL == "\n"

\* char::is_whitespace, restricted to the characters of the model
IsWhitespace(c) == c \in {" ", "\t", "\n", "\r"}

RECURSIVE trim_start(_)
trim_start(s) ==
    IF s # <<>> /\ IsWhitespace(Head(s)) THEN trim_start(Tail(s)) ELSE s

RECURSIVE trim_end(_)
trim_end(s) ==
    IF s # <<>> /\ IsWhitespace(s[Len(s)])
    THEN trim_end(SubSeq(s, 1, Len(s) - 1))
    ELSE s

\* str::trim
trim(s) == trim_end(trim_start(s))

\* str::starts_with
starts_with(s, p) == Len(s) >= Len(p) /\ SubSeq(s, 1, Len(p)) = p

\* the backquote character (a TLA+ string cannot hold it)
BQ == "BQ"

\* the three-backquote pattern of lines 121 and 144
FENCE == <<BQ, BQ, BQ>>

\* trimmed.chars().take_while(|&c| c == '#').count()
RECURSIVE hash_count(_)
hash_count(s) ==
    IF s # <<>> /\ Head(s) = "#" THEN 1 + hash_count(Tail(s)) ELSE 0

\* "#".repeat(n)
RECURSIVE repeat_hash(_)
repeat_hash(n) == IF n <= 0 THEN <<>> ELSE <<"#">> \o repeat_hash(n - 1)

\* str::lines: split at "\n", a final empty piece is no line, and a "\r"
\* before the "\n" belongs to the line ending
RECURSIVE lines_from(_, _, _)
lines_from(s, i, cur) ==
    IF i > Len(s)
    THEN IF cur = <<>> THEN <<>> ELSE <<cur>>
    ELSE IF s[i] = NL
         THEN LET line == IF cur # <<>> /\ cur[Len(cur)] = "\r"
                          THEN SubSeq(cur, 1, Len(cur) - 1)
                          ELSE cur
              IN  <<line>> \o lines_from(s, i + 1, <<>>)
         ELSE lines_from(s, i + 1, Append(cur, s[i]))

lines(s) == lines_from(s, 1, <<>>)

(***************************************************************************)
(* The two normalizers                                                     *)
(***************************************************************************)
\* single_file_loop with line 122 setting the flag instead of toggling it
RECURSIVE single_file_loop_never_closing(_, _)
single_file_loop_never_closing(ls, in_code_block) ==
    IF ls = <<>>
    THEN <<>>
    ELSE LET line    == Head(ls)
             trimmed == trim(line)
         IN  IF starts_with(trimmed, FENCE)
             THEN single_file_loop_never_closing(Tail(ls), TRUE)
             ELSE IF in_code_block
                  THEN single_file_loop_never_closing(Tail(ls), in_code_block)
                  ELSE line \o <<NL>>
                           \o single_file_loop_never_closing(Tail(ls),
                                                             in_code_block)

\* the loop of preprocess_markdown_single_file over the remaining lines
RECURSIVE single_file_loop(_, _)
single_file_loop(ls, in_code_block) ==
    IF ls = <<>>
    THEN <<>>
    ELSE LET line    == Head(ls)
             trimmed == trim(line)
         IN  IF starts_with(trimmed, FENCE)
             THEN single_file_loop(Tail(ls), ~in_code_block)
             ELSE IF in_code_block
                  THEN single_file_loop(Tail(ls), in_code_block)
                  ELSE line \o <<NL>> \o single_file_loop(Tail(ls), in_code_block)

preprocess_markdown_single_file(markdown) ==
    single_file_loop(lines(markdown), FALSE)

\* heading_line with line 159 adding one level instead of two
heading_line_one_level(line) ==
    LET trimmed == trim(line)
    IN  IF starts_with(trimmed, <<"#">>)
        THEN LET n            == hash_count(trimmed)
                 rest_of_line == SubSeq(trimmed, n + 1, Len(trimmed))
             IN  repeat_hash(n + 1) \o rest_of_line
        ELSE line

\* lines 154-163: the line pushed for a line outside a fence
heading_line(line) ==
    LET trimmed == trim(line)
    IN  IF starts_with(trimmed, <<"#">>)
        THEN LET n            == hash_count(trimmed)
                 rest_of_line == SubSeq(trimmed, n + 1, Len(trimmed))
             IN  repeat_hash(n + 2) \o rest_of_line
        ELSE line

\* offset_loop with lines 144-147 toggling the flag and copying the delimiter
RECURSIVE offset_loop_keeping_delimiters(_, _)
offset_loop_keeping_delimiters(ls, in_code_block) ==
    IF ls = <<>>
    THEN <<>>
    ELSE LET line    == Head(ls)
             trimmed == trim(line)
         IN  IF starts_with(trimmed, FENCE)
             THEN line \o <<NL>>
                      \o offset_loop_keeping_delimiters(Tail(ls),
                                                        ~in_code_block)
             ELSE IF in_code_block
                  THEN offset_loop_keeping_delimiters(Tail(ls), in_code_block)
                  ELSE heading_line(line) \o <<NL>>
                           \o offset_loop_keeping_delimiters(Tail(ls),
                                                             in_code_block)

\* the loop of preprocess_markdown over the remaining lines
RECURSIVE offset_loop(_, _)
offset_loop(ls, in_code_block) ==
    IF ls = <<>>
    THEN <<>>
    ELSE LET line    == Head(ls)
             trimmed == trim(line)
         IN  IF starts_with(trimmed, FENCE)
             THEN offset_loop(Tail(ls), ~in_code_block)
             ELSE IF in_code_block
                  THEN offset_loop(Tail(ls), in_code_block)
                  ELSE heading_line(line) \o <<NL>>
                           \o offset_loop(Tail(ls), in_code_block)

preprocess_markdown(markdown) == offset_loop(lines(markdown), FALSE)

(***************************************************************************)
(* Ordering of strings: String's Ord compares bytes lexicographically      *)
(***************************************************************************)
\* the byte of each character the model uses (ASCII)
char_code(c) ==
    CASE c = "\t" -> 9
      [] c = "\n" -> 10
      [] c = "\r" -> 13
      [] c = " "  -> 32
      [] c = "#"  -> 35
      [] c = "-"  -> 45
      [] c = "."  -> 46
      [] c = "/"  -> 47
      [] c = ">"  -> 62
      [] c = "B"  -> 66
      [] c = "D"  -> 68
      [] c = "M"  -> 77
      [] c = "R"  -> 82
      [] c = "T"  -> 84
      [] c = BQ   -> 96
      [] c = "a"  -> 97
      [] c = "b"  -> 98
      [] c = "d"  -> 100
      [] c = "m"  -> 109
      [] c = "o"  -> 111
      [] c = "t"  -> 116
      [] c = "x"  -> 120

\* a.cmp(&b) == Ordering::Less
RECURSIVE str_lt(_, _)
str_lt(a, b) ==
    IF b = <<>> THEN FALSE
    ELSE IF a = <<>> THEN TRUE
    ELSE IF Head(a) = Head(b) THEN str_lt(Tail(a), Tail(b))
    ELSE char_code(Head(a)) < char_code(Head(b))

str_le(a, b) == a = b \/ str_lt(a, b)

(***************************************************************************)
(* Paths                                                                   *)
(***************************************************************************)
\* the index of the last "." of a file name, 0 when it has none
RECURSIVE last_dot(_, _)
last_dot(name, i) ==
    IF i = 0 THEN 0 ELSE IF name[i] = "." THEN i ELSE last_dot(name, i - 1)

\* Path::extension: what follows the last ".", none when there is no "." or
\* the only "." begins the name
has_extension(name) == last_dot(name, Len(name)) > 1

extension(name) == SubSeq(name, last_dot(name, Len(name)) + 1, Len(name))

\* Path::file_stem: what precedes that ".", the whole name when there is none
file_stem(name) ==
    IF has_extension(name)
    THEN SubSeq(name, 1, last_dot(name, Len(name)) - 1)
    ELSE name

MD == <<"m", "d">>

\* Path::to_str of a relative path: its components joined by "/"
RECURSIVE path_to_str(_)
path_to_str(components) ==
    IF components = <<>> THEN <<>>
    ELSE IF Len(components) = 1 THEN Head(components)
    ELSE Head(components) \o <<"/">> \o path_to_str(Tail(components))

\* parent_dir.replace('/', " > ")
RECURSIVE replace_separator(_)
replace_separator(s) ==
    IF s = <<>> THEN <<>>
    ELSE (IF Head(s) = "/" THEN <<" ", ">", " ">> ELSE <<Head(s)>>)
             \o replace_separator(Tail(s))

ROOT == <<"R", "o", "o", "t">>

\* lines 58-69: the key of the group of a file whose parent directory, relative
\* to the scanned directory, has these components
dir_key(parent) ==
    LET parent_dir == path_to_str(parent)
    IN  IF parent_dir = <<>> THEN ROOT ELSE replace_separator(parent_dir)

(***************************************************************************)
(* collect_markdown_files                                                  *)
(***************************************************************************)
\* the filters of lines 44-46 on one entry of the walk
selected(e) ==
    /\ e.ok
    /\ e.is_file
    /\ has_extension(e.file_name) /\ extension(e.file_name) = MD

\* lines 71-78: files_by_dir.entry(key).or_insert_with(Vec::new).push(file)
push_file(map, key, file) ==
    IF key \in DOMAIN map
    THEN [map EXCEPT ![key] = Append(@, file)]
    ELSE [k \in DOMAIN map \cup {key} |->
              IF k = key THEN <<file>> ELSE map[k]]

\* collect_loop with line 50 skipping a file that cannot be read
RECURSIVE collect_loop_skipping_unreadable(_, _)
collect_loop_skipping_unreadable(entries, map) ==
    IF entries = <<>>
    THEN [ok |-> TRUE, value |-> map]
    ELSE LET e == Head(entries)
         IN  IF ~selected(e) \/ ~e.readable
             THEN collect_loop_skipping_unreadable(Tail(entries), map)
             ELSE collect_loop_skipping_unreadable(Tail(entries),
                      push_file(map, dir_key(e.parent),
                          [path    |-> <<e.parent, e.file_name>>,
                           content |-> e.content,
                           name    |-> file_stem(e.file_name)]))

\* lines 42-79: the loop over the walk; the first selected file that cannot
\* be read as text returns the error
RECURSIVE collect_loop(_, _)
collect_loop(entries, map) ==
    IF entries = <<>>
    THEN [ok |-> TRUE, value |-> map]
    ELSE LET e == Head(entries)
         IN  IF ~selected(e)
             THEN collect_loop(Tail(entries), map)
             ELSE IF ~e.readable
                  THEN [ok |-> FALSE, value |-> << >>]
                  ELSE collect_loop(Tail(entries),
                           push_file(map, dir_key(e.parent),
                               [path    |-> <<e.parent, e.file_name>>,
                                content |-> e.content,
                                name    |-> file_stem(e.file_name)]))

\* sort_by_name without line 83: the files stay in the order of the walk
sort_by_name_unsorted(files) == files

\* the stable insertion of one file into a vector sorted by name
RECURSIVE insert_sorted(_, _)
insert_sorted(sorted, file) ==
    IF sorted = <<>>
    THEN <<file>>
    ELSE IF str_lt(file.name, Head(sorted).name)
         THEN <<file>> \o sorted
         ELSE <<Head(sorted)>> \o insert_sorted(Tail(sorted), file)

\* line 83: files.sort_by(|a, b| a.name.cmp(&b.name)), a stable sort
RECURSIVE sort_by_name(_)
sort_by_name(files) ==
    IF files = <<>> THEN <<>>
    ELSE insert_sorted(sort_by_name(SubSeq(files, 1, Len(files) - 1)),
                       files[Len(files)])

collect_markdown_files(entries) ==
    LET r == collect_loop(entries, << >>)
    IN  IF ~r.ok
        THEN r
        ELSE [ok |-> TRUE,
              value |-> [k \in DOMAIN r.value |-> sort_by_name(r.value[k])]]

(***************************************************************************)
(* create_combined_markdown                                                *)
(***************************************************************************)
\* the keys of a BTreeMap in iteration order: ascending
RECURSIVE sorted_keys(_)
sorted_keys(keys) ==
    IF keys = {} THEN <<>>
    ELSE LET least == CHOOSE k \in keys : \A j \in keys : str_le(k, j)
         IN  <<least>> \o sorted_keys(keys \ {least})

\* files_loop with line 105 normalizing what it has normalized already
RECURSIVE files_loop_twice(_)
files_loop_twice(files) ==
    IF files = <<>>
    THEN [text |-> <<>>, calls |-> <<>>]
    ELSE LET file              == Head(files)
             processed_once    == preprocess_markdown(file.content)
             processed_content == preprocess_markdown(processed_once)
             more              == files_loop_twice(Tail(files))
         IN  [text  |-> <<"#", "#", " ">> \o file.name \o <<NL, NL>>
                            \o processed_content
                            \o <<NL, NL, "-", "-", "-", NL, NL>>
                            \o more.text,
              calls |-> <<[fn   |-> "preprocess_markdown",
                           doc  |-> file.path,
                           arg  |-> file.content,
                           ret  |-> processed_once],
                          [fn   |-> "preprocess_markdown",
                           doc  |-> file.path,
                           arg  |-> processed_once,
                           ret  |-> processed_content]>> \o more.calls]

\* lines 102-108: the loop over one group's files; text is what is pushed to
\* combined, calls the calls of preprocess_markdown made
RECURSIVE files_loop(_)
files_loop(files) ==
    IF files = <<>>
    THEN [text |-> <<>>, calls |-> <<>>]
    ELSE LET file              == Head(files)
             processed_content == preprocess_markdown(file.content)
             more              == files_loop(Tail(files))
         IN  [text  |-> <<"#", "#", " ">> \o file.name \o <<NL, NL>>
                            \o processed_content
                            \o <<NL, NL, "-", "-", "-", NL, NL>>
                            \o more.text,
              calls |-> <<[fn   |-> "preprocess_markdown",
                           doc  |-> file.path,
                           arg  |-> file.content,
                           ret  |-> processed_content]>> \o more.calls]

\* lines 97-109: the loop over the groups
RECURSIVE groups_loop(_, _)
groups_loop(keys, map) ==
    IF keys = <<>>
    THEN [text |-> <<>>, calls |-> <<>>]
    ELSE LET dir_name == Head(keys)
             body     == files_loop(map[dir_name])
             more     == groups_loop(Tail(keys), map)
         IN  [text  |-> (IF dir_name # ROOT
                         THEN <<"#", " ">> \o dir_name \o <<NL, NL>>
                         ELSE <<>>)
                            \o body.text \o more.text,
              calls |-> body.calls \o more.calls]

\* the combined text, with the calls of preprocess_markdown made for it
create_combined_markdown(map, doc_title) ==
    LET r == groups_loop(sorted_keys(DOMAIN map), map)
    IN  [combined |-> <<"#", " ">> \o doc_title \o <<NL, NL>> \o r.text,
         calls    |-> r.calls]

(***************************************************************************)
(* markdown_to_html, up to the parser                                      *)
(***************************************************************************)
\* line 171; the parser and the page template are outside the model
markdown_to_html(markdown) ==
    LET processed_markdown == preprocess_markdown_single_file(markdown)
    IN  [processed_markdown |-> processed_markdown,
         calls |-> <<[fn  |-> "preprocess_markdown_single_file",
                      doc |-> <<>>,
                      arg |-> markdown,
                      ret |-> processed_markdown]>>]

(***************************************************************************)
(* main                                                                    *)
(***************************************************************************)
\* bail!/?: main returns the error; the kind names the failing statement
Fail(kind) ==
    /\ pc' = "failed"
    /\ error' = kind

\* Validate with line 292 written map_or(false, ..): a file name without
\* extension passes
Validate_no_extension_passes ==
    /\ pc = "start"
    /\ IF input.kind = "missing"
       THEN Fail("InputNotFoundError")
       ELSE IF input.kind = "file"
            THEN IF has_extension(input.file_name)
                        /\ extension(input.file_name) # MD
                 THEN Fail("InvalidInputKindError")
                 ELSE pc' = "read_file" /\ error' = error
            ELSE IF input.kind = "dir"
                 THEN pc' = "collect" /\ error' = error
                 ELSE Fail("InvalidInputKindError")
    /\ UNCHANGED <<input, title, markdown_content, files_by_dir,
                   combined_markdown, parser_input, output, stages, calls>>

\* lines 286-294, 303, 331-333: the checks on args.input
Validate ==
    /\ pc = "start"
    /\ IF input.kind = "missing"
       THEN Fail("InputNotFoundError")
       ELSE IF input.kind = "file"
            THEN IF ~has_extension(input.file_name)
                        \/ extension(input.file_name) # MD
                 THEN Fail("InvalidInputKindError")
                 ELSE pc' = "read_file" /\ error' = error
            ELSE IF input.kind = "dir"
                 THEN pc' = "collect" /\ error' = error
                 ELSE Fail("InvalidInputKindError")
    /\ UNCHANGED <<input, title, markdown_content, files_by_dir,
                   combined_markdown, parser_input, output, stages, calls>>

\* lines 297-298: fs::read_to_string(&args.input)?
ReadFile ==
    /\ pc = "read_file"
    /\ stages' = Append(stages, "read_to_string")
    /\ IF input.readable
       THEN /\ markdown_content' = input.content
            /\ pc' = "convert_file"
            /\ error' = error
       ELSE /\ Fail("ReadError")
            /\ UNCHANGED markdown_content
    /\ UNCHANGED <<input, title, files_by_dir, combined_markdown,
                   parser_input, output, calls>>

\* ConvertFile without line 301: the text read goes to markdown_to_html as is
ConvertFile_unprocessed ==
    /\ pc = "convert_file"
    /\ LET html == markdown_to_html(markdown_content)
       IN  /\ parser_input' = html.processed_markdown
           /\ calls' = calls \o html.calls
    /\ stages' = Append(stages, "markdown_to_html")
    /\ pc' = "start_chrome"
    /\ UNCHANGED <<input, title, markdown_content, files_by_dir,
                   combined_markdown, error, output>>

\* lines 301-302: preprocess_markdown_single_file, then markdown_to_html
ConvertFile ==
    /\ pc = "convert_file"
    /\ LET processed_markdown ==
               preprocess_markdown_single_file(markdown_content)
           html == markdown_to_html(processed_markdown)
       IN  /\ parser_input' = html.processed_markdown
           /\ calls' = calls
                  \o <<[fn  |-> "preprocess_markdown_single_file",
                        doc |-> <<>>,
                        arg |-> markdown_content,
                        ret |-> processed_markdown]>>
                  \o html.calls
    /\ stages' = Append(stages, "markdown_to_html")
    /\ pc' = "start_chrome"
    /\ UNCHANGED <<input, title, markdown_content, files_by_dir,
                   combined_markdown, error, output>>

\* lines 306-310: collect_markdown_files(&args.input)? and the empty check
Collect ==
    /\ pc = "collect"
    /\ stages' = Append(stages, "collect_markdown_files")
    /\ LET r == collect_markdown_files(input.entries)
       IN  IF ~r.ok
           THEN Fail("ReadError") /\ UNCHANGED files_by_dir
           ELSE IF DOMAIN r.value = {}
                THEN Fail("EmptyInputError") /\ UNCHANGED files_by_dir
                ELSE /\ files_by_dir' = r.value
                     /\ pc' = "assemble"
                     /\ error' = error
    /\ UNCHANGED <<input, title, markdown_content, combined_markdown,
                   parser_input, output, calls>>

\* line 327: create_combined_markdown(files_by_dir, &args.title)
Assemble ==
    /\ pc = "assemble"
    /\ LET r == create_combined_markdown(files_by_dir, title)
       IN  /\ combined_markdown' = r.combined
           /\ calls' = calls \o r.calls
    /\ stages' = Append(stages, "create_combined_markdown")
    /\ pc' = "convert_combined"
    /\ UNCHANGED <<input, title, markdown_content, files_by_dir,
                   parser_input, error, output>>

\* line 330: markdown_to_html(&combined_markdown, ..)
ConvertCombined ==
    /\ pc = "convert_combined"
    /\ LET html == markdown_to_html(combined_markdown)
       IN  /\ parser_input' = html.processed_markdown
           /\ calls' = calls \o html.calls
    /\ stages' = Append(stages, "markdown_to_html")
    /\ pc' = "start_chrome"
    /\ UNCHANGED <<input, title, markdown_content, files_by_dir,
                   combined_markdown, error, output>>

\* a call of the exporter that either succeeds or returns its error
ExportStep(at, op, next, kind) ==
    /\ pc = at
    /\ stages' = Append(stages, op)
    /\ \E succeeds \in BOOLEAN :
           IF succeeds
           THEN pc' = next /\ error' = error
           ELSE Fail(kind)
    /\ UNCHANGED <<input, title, markdown_content, files_by_dir,
                   combined_markdown, parser_input, output, calls>>

\* lines 336-342: Browser::new(..)?
StartChrome ==
    ExportStep("start_chrome", "Browser::new", "new_tab",
               "ExportUnavailableError")

\* line 344: browser.new_tab()?
NewTab == ExportStep("new_tab", "new_tab", "navigate", "ExportFailureError")

\* lines 351-352: tab.navigate_to(&data_uri)?
Navigate ==
    ExportStep("navigate", "navigate_to", "wait_navigated",
               "ExportFailureError")

\* lines 354-355: tab.wait_until_navigated()?
WaitNavigated ==
    ExportStep("wait_navigated", "wait_until_navigated", "print_to_pdf",
               "ExportFailureError")

\* lines 358-379: tab.print_to_pdf(..)?
PrintToPdf ==
    ExportStep("print_to_pdf", "print_to_pdf", "write", "ExportFailureError")

\* lines 381-385: fs::write(&args.output, pdf_data)?; a failed write may have
\* created or truncated the file already
WriteOutput ==
    /\ pc = "write"
    /\ stages' = Append(stages, "fs::write")
    /\ \E succeeds \in BOOLEAN :
           IF succeeds
           THEN /\ output' = "complete"
                /\ pc' = "done"
                /\ error' = error
           ELSE /\ output' \in {"none", "partial"}
                /\ Fail("WriteError")
    /\ UNCHANGED <<input, title, markdown_content, files_by_dir,
                   combined_markdown, parser_input, calls>>

Next ==
    \/ Validate
    \/ ReadFile
    \/ ConvertFile
    \/ Collect
    \/ Assemble
    \/ ConvertCombined
    \/ StartChrome
    \/ NewTab
    \/ Navigate
    \/ WaitNavigated
    \/ PrintToPdf
    \/ WriteOutput

(***************************************************************************)
(* Inputs                                                                  *)
(***************************************************************************)
MaxLines == 4
MaxFiles == 3
MaxHeadingLines == 5
MaxGroupFiles == 2
MaxOddFiles == 2

\* the sequences over S of length at most n
SeqsUpTo(S, n) == UNION {[1..k -> S] : k \in 0..n}

\* a text with these lines, each ended by "\n", the last only if final_newline
RECURSIVE join_lines(_, _)
join_lines(ls, final_newline) ==
    IF ls = <<>> THEN <<>>
    ELSE IF Len(ls) = 1
         THEN Head(ls) \o (IF final_newline THEN <<NL>> ELSE <<>>)
         ELSE Head(ls) \o <<NL>> \o join_lines(Tail(ls), final_newline)

\* the texts of at most n lines drawn from Lines, and those of fewer lines
\* whose last line has no "\n"
Texts(Lines, n) ==
    {join_lines(ls, TRUE) : ls \in SeqsUpTo(Lines, n)}
    \cup {join_lines(ls, FALSE) : ls \in SeqsUpTo(Lines, n - 1)}

A_MD == <<"a", ".", "m", "d">>
B_MD == <<"B", ".", "m", "d">>

\* args.input names nothing, or something that is neither file nor directory
PathInput(kind) ==
    [kind |-> kind, file_name |-> <<>>, readable |-> FALSE,
     content |-> <<>>, entries |-> <<>>]

\* args.input names a regular file
FileInput(file_name, readable, content) ==
    [kind |-> "file", file_name |-> file_name, readable |-> readable,
     content |-> content, entries |-> <<>>]

\* args.input names a directory whose walk yields these entries
DirInput(entries) ==
    [kind |-> "dir", file_name |-> <<>>, readable |-> TRUE,
     content |-> <<>>, entries |-> entries]

\* a readable regular file of the walk
FileEntry(parent, file_name, content) ==
    [ok |-> TRUE, is_file |-> TRUE, parent |-> parent,
     file_name |-> file_name, readable |-> TRUE, content |-> content]

\* the walks of at most n entries drawn from Entries, no path twice
Walks(Entries, n) ==
    {w \in SeqsUpTo(Entries, n) :
        \A i, j \in 1..Len(w) :
            (i # j) => <<w[i].parent, w[i].file_name>>
                           # <<w[j].parent, w[j].file_name>>}

HEADING_A == <<"#", " ", "a">>

\* the entries a walk can yield besides readable Markdown files
OddEntries ==
    {[ok |-> TRUE, is_file |-> TRUE, parent |-> <<>>, file_name |-> A_MD,
      readable |-> FALSE, content |-> <<>>],
     [ok |-> FALSE, is_file |-> TRUE, parent |-> <<>>, file_name |-> B_MD,
      readable |-> TRUE, content |-> HEADING_A],
     [ok |-> TRUE, is_file |-> FALSE, parent |-> <<>>,
      file_name |-> <<"d", ".", "m", "d">>,
      readable |-> FALSE, content |-> <<>>],
     [ok |-> TRUE, is_file |-> TRUE, parent |-> <<>>,
      file_name |-> <<"a", ".", "M", "D">>,
      readable |-> TRUE, content |-> HEADING_A],
     [ok |-> TRUE, is_file |-> TRUE, parent |-> <<<<"a">>>>,
      file_name |-> <<"m", "d">>,
      readable |-> TRUE, content |-> HEADING_A]}

\* the inputs every specification starts from: each kind of args.input, each
\* file name, and the short walks with unreadable and unselected entries
BaseInputs ==
    {PathInput("missing"), PathInput("other")}
    \cup {FileInput(n, r, HEADING_A) :
             n \in {A_MD, <<"a", ".", "M", "D">>, <<"a", ".", "t", "x", "t">>,
                    <<"m", "d">>, <<".", "m", "d">>, <<"a", ".", "b", ".", "m", "d">>},
             r \in BOOLEAN}
    \cup {DirInput(w) :
             w \in Walks(OddEntries
                         \cup {FileEntry(<<>>, B_MD, HEADING_A),
                               FileEntry(<<<<"a">>>>, A_MD, <<"a", NL>>)},
                         MaxOddFiles)}

InitWith(Inputs) ==
    /\ input \in Inputs
    /\ title = <<"T">>
    /\ pc = "start"
    /\ markdown_content = <<>>
    /\ files_by_dir = << >>
    /\ combined_markdown = <<>>
    /\ parser_input = <<>>
    /\ error = "none"
    /\ output = "none"
    /\ stages = <<>>
    /\ calls = <<>>

\* any kind of input, small texts
Init == InitWith(BaseInputs)

Spec == Init /\ [][Next]_vars

\* the lines the normalizers tell apart: text, a heading (indented, and
\* followed by a space), fence delimiters (one indented, with an info
\* string), and two backquotes
NormalizerLines ==
    {<<"a">>, <<" ", "#", "#", "a", " ">>,
     FENCE, <<" ">> \o FENCE \o <<"a">>, <<BQ, BQ>>}

\* one file, or a directory holding one file, with any text of those lines
InitNormalize ==
    InitWith(BaseInputs
             \cup {FileInput(A_MD, TRUE, t) :
                      t \in Texts(NormalizerLines, MaxLines)}
             \cup {DirInput(<<FileEntry(<<>>, A_MD, t)>>) :
                      t \in Texts(NormalizerLines, MaxLines)})

SpecNormalize == InitNormalize /\ [][Next]_vars

\* files a.md and B.md in the scanned directory and in the directories a and
\* B, each with a heading and a text line or with a text line and a heading
\* in an unterminated fence
AssembleEntries ==
    {FileEntry(d, n, c) :
        d \in {<<>>, <<<<"a">>>>, <<<<"B">>>>},
        n \in {A_MD, B_MD},
        c \in {<<" ", "#", "a", " ", NL, "b", NL>>,
               <<"a", NL>> \o FENCE \o <<NL, "#", "b">>}}

InitAssemble ==
    InitWith(BaseInputs
             \cup {DirInput(w) : w \in Walks(AssembleEntries, MaxFiles)})

SpecAssemble == InitAssemble /\ [][Next]_vars

\* a.md and B.md in the scanned directory, in directories named Root and
\* "a > b", and in the directory b of the directory a
GroupEntries ==
    {FileEntry(d, n, HEADING_A) :
        d \in {<<>>, <<ROOT>>, <<<<"a">>, <<"b">>>>,
               <<<<"a", " ", ">", " ", "b">>>>},
        n \in {A_MD, B_MD}}

InitGroups ==
    InitWith(BaseInputs
             \cup {DirInput(w) : w \in Walks(GroupEntries, MaxGroupFiles)})

SpecGroups == InitGroups /\ [][Next]_vars

\* heading lines of one to five levels
HeadingLines ==
    {<<"#">>, <<"#", "#">>, <<"#", "#", "#">>, <<"#", "#", "#", "#">>,
     <<"#", "#", "#", "#", "#">>}

\* a directory holding one file whose lines are headings
InitHeadings ==
    InitWith(BaseInputs
             \cup {DirInput(<<FileEntry(<<>>, A_MD, join_lines(ls, TRUE))>>) :
                      ls \in SeqsUpTo(HeadingLines, MaxHeadingLines)})

SpecHeadings == InitHeadings /\ [][Next]_vars

(***************************************************************************)
(* What the claims speak of, stated on the lines of a text without the     *)
(* normalizers' loops                                                      *)
(***************************************************************************)
\* the number of whitespace characters a line begins with
Indent(l) ==
    CHOOSE n \in 0..Len(l) :
        /\ \A j \in 1..n : IsWhitespace(l[j])
        /\ n = Len(l) \/ ~IsWhitespace(l[n + 1])

\* the index of the last character of a line that is not whitespace, 0 if none
LastInk(l) ==
    CHOOSE n \in 0..Len(l) :
        /\ \A j \in (n + 1)..Len(l) : IsWhitespace(l[j])
        /\ n = 0 \/ ~IsWhitespace(l[n])

\* the trimmed line starts with three backquotes
IsFenceDelimiter(l) ==
    /\ Indent(l) + 3 <= Len(l)
    /\ \A j \in 1..3 : l[Indent(l) + j] = BQ

\* the number of "#" the trimmed line starts with
Level(l) ==
    CHOOSE k \in 0..(Len(l) - Indent(l)) :
        /\ \A j \in 1..k : l[Indent(l) + j] = "#"
        /\ Indent(l) + k = Len(l) \/ l[Indent(l) + k + 1] # "#"

IsHeading(l) == Level(l) >= 1

\* what follows the "#" run in the line
AfterHashes(l) == SubSeq(l, Indent(l) + Level(l) + 1, Len(l))

\* what follows the "#" run in the trimmed line
AfterHashesTrimmed(l) == SubSeq(l, Indent(l) + Level(l) + 1, LastInk(l))

Hashes(n) == [j \in 1..n |-> "#"]

\* the lines of ls outside the fenced regions, in order: a line is outside
\* when it is no delimiter and an even number of delimiters precede it
KeptLines(ls) ==
    LET fence == [i \in DOMAIN ls |-> IsFenceDelimiter(ls[i])]
        kept  == [i \in DOMAIN ls |->
                     /\ ~fence[i]
                     /\ Cardinality({j \in 1..(i - 1) : fence[j]}) % 2 = 0]
        rank  == [i \in DOMAIN ls |-> Cardinality({j \in 1..i : kept[j]})]
        K     == {i \in DOMAIN ls : kept[i]}
    IN  [r \in 1..Cardinality(K) |-> ls[CHOOSE i \in K : rank[i] = r]]

Balanced(ls) ==
    Cardinality({j \in 1..Len(ls) : IsFenceDelimiter(ls[j])}) % 2 = 0

CallsOf(fn) == SelectSeq(calls, LAMBDA c : c.fn = fn)

OffsetCalls == CallsOf("preprocess_markdown")

SingleFileCalls == CallsOf("preprocess_markdown_single_file")

Range(seq) == {seq[i] : i \in 1..Len(seq)}

(***************************************************************************)
(* C1                                                                      *)
(***************************************************************************)
\* C1 as stated: for every line outside a fence whose trimmed form starts with
\* k >= 1 "#", preprocess_markdown emits one line, in input order, made of
\* k + 2 "#" and then the text that followed the "#" run in the line, unchanged.
C1_Original ==
    \A c \in Range(OffsetCalls) :
        LET kept == KeptLines(lines(c.arg))
            out  == lines(c.ret)
        IN  /\ Len(out) = Len(kept)
            /\ \A r \in DOMAIN kept :
                   IsHeading(kept[r]) =>
                       out[r] = Hashes(Level(kept[r]) + 2)
                                    \o AfterHashes(kept[r])

\* C1 amended: for every line outside a fence whose trimmed form starts with
\* k >= 1 "#", preprocess_markdown emits one line, in input order, made of
\* k + 2 "#" and then the text that followed the "#" run in the trimmed line:
\* the whitespace before the "#" run and at the end of the line is dropped.
C1_HeadingShift ==
    \A c \in Range(OffsetCalls) :
        LET kept == KeptLines(lines(c.arg))
            out  == lines(c.ret)
        IN  /\ Len(out) = Len(kept)
            /\ \A r \in DOMAIN kept :
                   IsHeading(kept[r]) =>
                       out[r] = Hashes(Level(kept[r]) + 2)
                                    \o AfterHashesTrimmed(kept[r])

\* a heading with text after it and whitespace around it was normalized after
\* a fenced region that was opened and closed
C1_Witness ==
    \E c \in Range(OffsetCalls) :
        LET ls == lines(c.arg)
        IN  /\ Len(ls) = 4
            /\ ls[1] = FENCE /\ IsHeading(ls[2]) /\ ls[3] = FENCE
            /\ IsHeading(ls[4])
            /\ Indent(ls[4]) > 0
            /\ AfterHashesTrimmed(ls[4]) # <<>>
            /\ AfterHashes(ls[4]) # AfterHashesTrimmed(ls[4])

(***************************************************************************)
(* C2                                                                      *)
(***************************************************************************)
\* C2: for a text with balanced fence markers, the output of either normalizer
\* has no fence delimiter line and no line from inside a fence: its lines are
\* the lines outside the fences, in order, verbatim for the variant without
\* offset and verbatim except heading lines for the offsetting variant.
C2_FencesRemoved ==
    \A c \in Range(calls) :
        LET ls   == lines(c.arg)
            kept == KeptLines(ls)
            out  == lines(c.ret)
        IN  Balanced(ls) =>
                /\ \A j \in DOMAIN out : ~IsFenceDelimiter(out[j])
                /\ Len(out) = Len(kept)
                /\ \A r \in DOMAIN kept :
                       (c.fn = "preprocess_markdown_single_file"
                            \/ ~IsHeading(kept[r])) =>
                           out[r] = kept[r]

\* a text of a line, a closed fenced region holding a heading, and a heading
ClosedFence(ls) ==
    /\ Len(ls) = 4
    /\ ls[1] = <<"a">>
    /\ IsFenceDelimiter(ls[2]) /\ IsFenceDelimiter(ls[3])
    /\ IsHeading(ls[4])

\* the offsetting normalizer was given such a text, and its output went
\* through the other normalizer
C2_Witness ==
    /\ \E c \in Range(OffsetCalls) : ClosedFence(lines(c.arg))
    /\ SingleFileCalls # <<>>

\* the normalizer without offset was given such a text
C2_WitnessSingleFile ==
    \E c \in Range(SingleFileCalls) : ClosedFence(lines(c.arg))

(***************************************************************************)
(* C8                                                                      *)
(***************************************************************************)
ParserReached == "markdown_to_html" \in Range(stages)

EndsWithMd(name) ==
    /\ Len(name) > 3
    /\ SubSeq(name, Len(name) - 2, Len(name)) = <<".", "m", "d">>

PathOf(e) == <<e.parent, e.file_name>>

\* the entries of the walk that are Markdown documents
Documents ==
    {e \in Range(input.entries) : e.ok /\ e.is_file /\ EndsWithMd(e.file_name)}

DocumentAt(path) == CHOOSE e \in Documents : PathOf(e) = path

\* the title of a document: its file name without ".md"
TitleOf(path) == SubSeq(path[2], 1, Len(path[2]) - 3)

\* the key of the group that holds the document
GroupOf(path) ==
    CHOOSE k \in DOMAIN files_by_dir :
        \E i \in DOMAIN files_by_dir[k] : files_by_dir[k][i].path = path

\* the documents in the order the assembler took them
Emitted == [j \in DOMAIN OffsetCalls |-> OffsetCalls[j].doc]

Assembled == "create_combined_markdown" \in Range(stages)

\* the document at position j of docs begins a group that has a heading
OpensGroup(docs, j) ==
    /\ GroupOf(docs[j]) # ROOT
    /\ j = 1 \/ GroupOf(docs[j - 1]) # GroupOf(docs[j])

SEPARATOR == <<"-", "-", "-">>

(***************************************************************************)
(* C3                                                                      *)
(***************************************************************************)
\* C3: preprocess_markdown is not idempotent: whenever its argument has a
\* heading line outside a fence, applying it to its result gives another text,
\* each such heading two levels deeper; and create_combined_markdown calls it
\* exactly once for each document of the directory.
C3_NotIdempotentOncePerDocument ==
    /\ \A c \in Range(OffsetCalls) :
           LET kept  == KeptLines(lines(c.arg))
               once  == lines(c.ret)
               twice == lines(preprocess_markdown(c.ret))
           IN  (\E r \in DOMAIN kept : IsHeading(kept[r])) =>
                   /\ preprocess_markdown(c.ret) # c.ret
                   /\ Len(twice) = Len(once)
                   /\ \A r \in DOMAIN kept :
                          IsHeading(kept[r]) =>
                              twice[r] = <<"#", "#">> \o once[r]
    /\ ~Assembled => OffsetCalls = <<>>
    /\ Assembled =>
           \A e \in Documents :
               Cardinality({j \in DOMAIN OffsetCalls :
                               OffsetCalls[j].doc = PathOf(e)}) = 1

\* three documents have been assembled, one of them with a heading outside a
\* fence and one with its only heading inside a fence
C3_Witness ==
    /\ Assembled
    /\ Len(OffsetCalls) = 3
    /\ \E c \in Range(OffsetCalls) :
           \E l \in Range(KeptLines(lines(c.arg))) : IsHeading(l)
    /\ \E c \in Range(OffsetCalls) :
           /\ \A l \in Range(KeptLines(lines(c.arg))) : ~IsHeading(l)
           /\ \E l \in Range(lines(c.arg)) : IsHeading(l)

(***************************************************************************)
(* C4                                                                      *)
(***************************************************************************)
\* the blocks of the documents docs[j..], as the claim lays them out
RECURSIVE ExpectedBlocks(_, _)
ExpectedBlocks(docs, j) ==
    IF j > Len(docs)
    THEN <<>>
    ELSE (IF OpensGroup(docs, j)
          THEN <<"#", " ">> \o GroupOf(docs[j]) \o <<NL, NL>>
          ELSE <<>>)
             \o <<"#", "#", " ">> \o TitleOf(docs[j]) \o <<NL, NL>>
             \o preprocess_markdown(DocumentAt(docs[j]).content)
             \o <<NL, NL>> \o SEPARATOR \o <<NL, NL>>
             \o ExpectedBlocks(docs, j + 1)

\* C4: the combined text is a level-1 heading with the title and a blank line,
\* then for each group in ascending key order a level-1 heading with its key
\* unless the key is the root sentinel, then for each document of the group in
\* ascending title order a level-2 heading with its title, its body normalized
\* with offset 2, and "---" between blank lines; every document once.
C4_CombinedLayout ==
    Assembled =>
        /\ Range(Emitted) = {PathOf(e) : e \in Documents}
        /\ Len(Emitted) = Cardinality(Documents)
        /\ \A i, j \in DOMAIN Emitted :
               i < j =>
                   /\ str_le(GroupOf(Emitted[i]), GroupOf(Emitted[j]))
                   /\ GroupOf(Emitted[i]) = GroupOf(Emitted[j]) =>
                          str_le(TitleOf(Emitted[i]), TitleOf(Emitted[j]))
        /\ combined_markdown
               = <<"#", " ">> \o title \o <<NL, NL>>
                     \o ExpectedBlocks(Emitted, 1)

\* three documents have been assembled: one in the scanned directory, and two
\* of one subdirectory that the walk yielded in descending title order
C4_Witness ==
    /\ Assembled
    /\ Len(input.entries) = 3
    /\ \E i, j \in DOMAIN input.entries :
           /\ i < j
           /\ input.entries[i].parent = input.entries[j].parent
           /\ input.entries[i].parent # <<>>
           /\ str_lt(input.entries[j].file_name, input.entries[i].file_name)
    /\ \E i \in DOMAIN input.entries : input.entries[i].parent = <<>>

(***************************************************************************)
(* C10                                                                     *)
(***************************************************************************)
\* the lines a document contributes: its lines outside its own fenced regions,
\* the headings two levels deeper
ExpectedBody(content) ==
    LET kept == KeptLines(lines(content))
    IN  [r \in DOMAIN kept |->
            IF IsHeading(kept[r])
            THEN Hashes(Level(kept[r]) + 2) \o AfterHashesTrimmed(kept[r])
            ELSE kept[r]]

\* the lines of the documents docs[j..] with their headings and separators
RECURSIVE ExpectedLines(_, _)
ExpectedLines(docs, j) ==
    IF j > Len(docs)
    THEN <<>>
    ELSE (IF OpensGroup(docs, j)
          THEN <<<<"#", " ">> \o GroupOf(docs[j]), <<>>>>
          ELSE <<>>)
             \o <<<<"#", "#", " ">> \o TitleOf(docs[j]), <<>>>>
             \o ExpectedBody(DocumentAt(docs[j]).content)
             \o <<<<>>, <<>>, SEPARATOR, <<>>>>
             \o ExpectedLines(docs, j + 1)

Collected == DOMAIN files_by_dir # {}

\* C5: two documents are in the same group if and only if they have the same
\* parent directory; the root group holds exactly the documents directly in
\* the scanned directory, so the combined text has a group heading for every
\* document of a subdirectory, whatever its name.
C5_GroupsAreDirectories ==
    Collected =>
        /\ \A d, e \in Documents :
               (GroupOf(PathOf(d)) = GroupOf(PathOf(e)))
                   <=> (d.parent = e.parent)
        /\ \A d \in Documents :
               (GroupOf(PathOf(d)) = ROOT) <=> (d.parent = <<>>)
        /\ Assembled =>
               \A d \in Documents :
                   d.parent # <<>> =>
                       \E j \in DOMAIN Emitted :
                           /\ GroupOf(Emitted[j]) = GroupOf(PathOf(d))
                           /\ OpensGroup(Emitted, j)

(***************************************************************************)
(* C9                                                                      *)
(***************************************************************************)
\* the levels of the heading lines among ls, in order
HeadingLevels(ls) ==
    LET hs == SelectSeq(ls, IsHeading)
    IN  [i \in DOMAIN hs |-> Level(hs[i])]

\* no heading is more than one level deeper than the heading before it
NonSkipping(levels) ==
    \A i \in DOMAIN levels : i > 1 => levels[i] <= levels[i - 1] + 1

\* C9: if the headings outside fences of every document start at level 1 and
\* never go deeper by more than one level at a time, then every heading line
\* of the combined text has between 1 and 6 "#" and is at most one level
\* deeper than the heading line before it.
C9_ValidHierarchy ==
    Assembled =>
        ((\A d \in Documents :
              LET own == HeadingLevels(KeptLines(lines(d.content)))
              IN  /\ own # <<>> => own[1] = 1
                  /\ NonSkipping(own))
             =>
                 LET all == HeadingLevels(lines(combined_markdown))
                 IN  /\ \A i \in DOMAIN all : all[i] \in 1..6
                     /\ NonSkipping(all))

(***************************************************************************)
(* C6                                                                      *)
(***************************************************************************)
\* main returned this error before it read, converted or exported anything
Rejected(kind) ==
    /\ pc = "failed"
    /\ error = kind
    /\ stages = <<>>
    /\ calls = <<>>
    /\ output = "none"

\* C6: a path that does not exist gives InputNotFoundError; a regular file
\* whose extension is not "md", or a path that is neither file nor directory,
\* gives InvalidInputKindError; a directory whose scan selects no ".md" file
\* gives EmptyInputError; in each case the exporter is not started and nothing
\* is written.
C6_InputValidation ==
    /\ (pc # "start" /\ input.kind = "missing") =>
           Rejected("InputNotFoundError")
    /\ (pc # "start" /\ input.kind = "file"
            /\ ~EndsWithMd(input.file_name)) =>
           Rejected("InvalidInputKindError")
    /\ (pc # "start" /\ input.kind = "other") =>
           Rejected("InvalidInputKindError")
    /\ (pc \notin {"start", "collect"} /\ input.kind = "dir"
            /\ Documents = {}) =>
           /\ pc = "failed"
           /\ error = "EmptyInputError"
           /\ stages = <<"collect_markdown_files">>
           /\ calls = <<>>
           /\ output = "none"

\* a directory whose walk yields entries, none of them a ".md" file, was
\* rejected
C6_Witness ==
    /\ input.kind = "dir"
    /\ Len(input.entries) = 2
    /\ Documents = {}
    /\ error = "EmptyInputError"

\* a regular file without extension was rejected
C6_WitnessFile ==
    /\ input.kind = "file"
    /\ input.file_name = MD
    /\ error = "InvalidInputKindError"

(***************************************************************************)
(* C7                                                                      *)
(***************************************************************************)
\* the place of each operation in the order discover/read, assemble, render,
\* export, write
StageRank(op) ==
    CASE op \in {"read_to_string", "collect_markdown_files"} -> 1
      [] op = "create_combined_markdown" -> 2
      [] op = "markdown_to_html" -> 3
      [] op = "Browser::new" -> 4
      [] op = "new_tab" -> 5
      [] op = "navigate_to" -> 6
      [] op = "wait_until_navigated" -> 7
      [] op = "print_to_pdf" -> 8
      [] op = "fs::write" -> 9

ExportOps ==
    <<"Browser::new", "new_tab", "navigate_to", "wait_until_navigated",
      "print_to_pdf">>

\* the operations of a run that got to write the output
FullRuns ==
    {<<"read_to_string", "markdown_to_html">> \o ExportOps \o <<"fs::write">>,
     <<"collect_markdown_files", "create_combined_markdown",
       "markdown_to_html">> \o ExportOps \o <<"fs::write">>}

\* the operations that return each kind of error
FailingOps(kind) ==
    CASE kind = "ReadError" -> {"read_to_string", "collect_markdown_files"}
      [] kind = "EmptyInputError" -> {"collect_markdown_files"}
      [] kind = "ExportUnavailableError" -> {"Browser::new"}
      [] kind = "ExportFailureError" ->
             {"new_tab", "navigate_to", "wait_until_navigated", "print_to_pdf"}
      [] kind = "WriteError" -> {"fs::write"}
      [] OTHER -> {}

\* C7: the stages run in the order discover/read, assemble, render, export,
\* write, each at most once; the first failure ends the run with an error and
\* nothing runs after it; the output is written only when every earlier stage
\* succeeded; and when a document of the directory cannot be read, no combined
\* text is built from the others.
C7_FailFast ==
    /\ \A i, j \in DOMAIN stages :
           i < j => StageRank(stages[i]) < StageRank(stages[j])
    /\ (error # "none") <=> (pc = "failed")
    /\ pc = "failed" =>
           IF error \in {"InputNotFoundError", "InvalidInputKindError"}
           THEN stages = <<>>
           ELSE /\ stages # <<>>
                /\ stages[Len(stages)] \in FailingOps(error)
    /\ output # "none" => stages \in FullRuns
    /\ (output = "complete") <=> (pc = "done")
    /\ pc = "done" => error = "none"
    /\ (pc \notin {"start", "collect"} /\ input.kind = "dir"
            /\ \E d \in Documents : ~d.readable) =>
           /\ pc = "failed"
           /\ error = "ReadError"
           /\ stages = <<"collect_markdown_files">>
           /\ combined_markdown = <<>>
           /\ parser_input = <<>>
           /\ output = "none"

\* the scan of a directory with a readable and an unreadable document failed
C7_Witness ==
    /\ input.kind = "dir"
    /\ \E d \in Documents : ~d.readable
    /\ \E d \in Documents : d.readable
    /\ error = "ReadError"

\* a run wrote its output
C7_WitnessDone == pc = "done" /\ input.kind = "dir"

====
